---------------------------- MODULE Spec2Model ----------------------------
(***************************************************************************)
(* A model of src/app.py: the voice-call intake webhook.                   *)
(*                                                                         *)
(* Text is modelled as a sequence of one-character strings, so that        *)
(* escaping, stripping, truncation and the urgency regular expression are  *)
(* computed character by character as the code computes them.              *)
(*                                                                         *)
(* A value that Python may hold as None (a missing request parameter) is   *)
(* an option: << >> for None, <<s>> for the text s.                        *)
(***************************************************************************)
EXTENDS Naturals, Sequences, FiniteSets, TLC

(***************************************************************************)
(* Bounds of the model.                                                    *)
(***************************************************************************)
\* The longest caller utterance the exhaustive round-trip specification draws.
MaxLen == 2
\* The most segments (prose, JSON values, braced text) in a classifier reply.
MaxSegs == 2

(***************************************************************************)
(* Text helpers.                                                           *)
(***************************************************************************)
None == << >>

Some(s) == <<s>>

\* request.values.get(k) or "": None and "" both give "".
OrEmpty(o) == IF o = None THEN << >> ELSE o[1]

\* Characters str.strip() removes.
Whitespace == {" ", "\n", "\t"}

RECURSIVE LStrip(_)
LStrip(s) ==
    IF s = << >> THEN << >>
    ELSE IF s[1] \in Whitespace THEN LStrip(Tail(s)) ELSE s

RECURSIVE RStrip(_)
RStrip(s) ==
    IF s = << >> THEN << >>
    ELSE IF s[Len(s)] \in Whitespace THEN RStrip(SubSeq(s, 1, Len(s) - 1)) ELSE s

\* str.strip()
Strip(s) == RStrip(LStrip(s))

\* s[:n]
Take(s, n) == IF Len(s) <= n THEN s ELSE SubSeq(s, 1, n)

\* str.replace(c, r) for a one-character c.
RECURSIVE Replace(_, _, _)
Replace(s, c, r) ==
    IF s = << >> THEN << >>
    ELSE (IF s[1] = c THEN r ELSE <<s[1]>>) \o Replace(Tail(s), c, r)

StartsWith(s, p) == Len(s) >= Len(p) /\ SubSeq(s, 1, Len(p)) = p

Amp == <<"&", "a", "m", "p", ";">>
Lt == <<"&", "l", "t", ";">>
Gt == <<"&", "g", "t", ";">>
Quot == <<"&", "q", "u", "o", "t", ";">>
Apos == <<"&", "a", "p", "o", "s", ";">>

(***************************************************************************)
(* escape_xml: five replacements, the ampersand first.                     *)
(***************************************************************************)
\* A variant that replaces the ampersand last, re-escaping the entities.
escape_xml_amp_last(s) ==
    Replace(Replace(Replace(Replace(Replace(s, "<", Lt), ">", Gt), "\"", Quot), "'", Apos), "&", Amp)

\* A variant that leaves the double quote as it is.
escape_xml_no_quot(s) ==
    Replace(Replace(Replace(Replace(s, "&", Amp), "<", Lt), ">", Gt), "'", Apos)

\* A variant that leaves the less-than sign as it is.
escape_xml_no_lt(s) ==
    Replace(Replace(Replace(Replace(s, "&", Amp), ">", Gt), "\"", Quot), "'", Apos)

escape_xml(s) ==
    Replace(Replace(Replace(Replace(Replace(s, "&", Amp), "<", Lt), ">", Gt), "\"", Quot), "'", Apos)

(***************************************************************************)
(* The transport's reading of a Parameter value="..." attribute: an XML    *)
(* parser ends the value at a raw quote, rejects a raw < and an ampersand  *)
(* that starts none of the five entities, and turns each entity back into  *)
(* its character.  ok = FALSE: the document is not well-formed.            *)
(***************************************************************************)
Entities == {
    [e |-> Amp, c |-> "&"], [e |-> Lt, c |-> "<"], [e |-> Gt, c |-> ">"],
    [e |-> Quot, c |-> "\""], [e |-> Apos, c |-> "'"] }

RECURSIVE ParseAttr(_)
ParseAttr(e) ==
    IF e = << >> THEN [ok |-> TRUE, v |-> << >>]
    ELSE IF e[1] \in {"<", "\""} THEN [ok |-> FALSE, v |-> << >>]
    ELSE IF e[1] = "&" THEN
        LET m == {x \in Entities : StartsWith(e, x.e)} IN
        IF m = {} THEN [ok |-> FALSE, v |-> << >>]
        ELSE LET x == CHOOSE y \in m : TRUE
                 r == ParseAttr(SubSeq(e, Len(x.e) + 1, Len(e)))
             IN [ok |-> r.ok, v |-> <<x.c>> \o r.v]
    ELSE LET r == ParseAttr(Tail(e))
         IN [ok |-> r.ok, v |-> <<IF e[1] \in {"\n", "\t"} THEN " " ELSE e[1]>> \o r.v]

(***************************************************************************)
(* heuristic_extract: the urgency regular expression                       *)
(*   \b(flood|flooding|burst|...|ceiling leak)\b   with re.I               *)
(***************************************************************************)
LowerLetters == {"a", "b", "c", "d", "e", "f", "g", "h", "i", "j", "k", "l", "m",
    "n", "o", "p", "q", "r", "s", "t", "u", "v", "w", "x", "y", "z"}

ToLower ==
    ("A" :> "a") @@ ("B" :> "b") @@ ("C" :> "c") @@ ("D" :> "d") @@ ("E" :> "e") @@
    ("F" :> "f") @@ ("G" :> "g") @@ ("H" :> "h") @@ ("I" :> "i") @@ ("J" :> "j") @@
    ("K" :> "k") @@ ("L" :> "l") @@ ("M" :> "m") @@ ("N" :> "n") @@ ("O" :> "o") @@
    ("P" :> "p") @@ ("Q" :> "q") @@ ("R" :> "r") @@ ("S" :> "s") @@ ("T" :> "t") @@
    ("U" :> "u") @@ ("V" :> "v") @@ ("W" :> "w") @@ ("X" :> "x") @@ ("Y" :> "y") @@
    ("Z" :> "z")

Digits == {"0", "1", "2", "3", "4", "5", "6", "7", "8", "9"}

\* \w
WordChars == LowerLetters \cup DOMAIN ToLower \cup Digits \cup {"_"}

\* re.I: letters compare by their lower-case form.
Lower(ch) == IF ch \in DOMAIN ToLower THEN ToLower[ch] ELSE ch

UrgentPhrases == {
    <<"f", "l", "o", "o", "d">>,
    <<"f", "l", "o", "o", "d", "i", "n", "g">>,
    <<"b", "u", "r", "s", "t">>,
    <<"g", "u", "s", "h", "i", "n", "g">>,
    <<"o", "v", "e", "r", "f", "l", "o", "w">>,
    <<"s", "t", "a", "n", "d", "i", "n", "g", " ", "w", "a", "t", "e", "r">>,
    <<"w", "a", "t", "e", "r", " ", "i", "s", " ", "e", "v", "e", "r", "y", "w", "h", "e", "r", "e">>,
    <<"s", "t", "i", "l", "l", " ", "l", "e", "a", "k", "i", "n", "g">>,
    <<"c", "e", "i", "l", "i", "n", "g", " ", "l", "e", "a", "k">> }

\* \b between t[i-1] and t[i]: exactly one side is a word character.
IsWordAt(t, i) == i >= 1 /\ i <= Len(t) /\ t[i] \in WordChars

WordBoundary(t, i) == IsWordAt(t, i - 1) # IsWordAt(t, i)

\* The phrase p is in t at position i, and a word boundary follows it.
PhraseAt(t, p, i) ==
    /\ i + Len(p) - 1 <= Len(t)
    /\ \A k \in 1..Len(p) : Lower(t[i + k - 1]) = p[k]
    /\ WordBoundary(t, i + Len(p))

\* A variant that matches a phrase wherever it occurs, with no \b.
UrgentMatch_anywhere(t) ==
    \E i \in 1..Len(t), p \in UrgentPhrases :
        /\ i + Len(p) - 1 <= Len(t)
        /\ \A k \in 1..Len(p) : Lower(t[i + k - 1]) = p[k]

\* bool(re.search(...)): some position at a word boundary starts a phrase.
UrgentMatch(t) ==
    \E i \in 1..Len(t) :
        WordBoundary(t, i) /\ \E p \in UrgentPhrases : PhraseAt(t, p, i)

(***************************************************************************)
(* Immutable configuration, read once from the environment at start-up.    *)
(* Each is a text; the empty text is "not configured".                     *)
(***************************************************************************)
VARIABLES OPENAI_API_KEY, FORWARD_NUMBER, LEAD_WEBHOOK_URL

SITE_CITY == "Phoenix, AZ"

SITE_NICHE == "Water Damage"

(***************************************************************************)
(* JSON values as Python holds them after json.loads: t is the type, b the *)
(* value of a bool (and whether a list is non-empty), s the text of a str, *)
(* f the key -> value mapping of a dict.                                   *)
(***************************************************************************)
NoFields == [k \in {} |-> << >>]

JBool(b) == [t |-> "bool", b |-> b, s |-> << >>, f |-> NoFields]

JStr(s) == [t |-> "str", b |-> FALSE, s |-> s, f |-> NoFields]

JNull == [t |-> "null", b |-> FALSE, s |-> << >>, f |-> NoFields]

JList(nonempty) == [t |-> "list", b |-> nonempty, s |-> << >>, f |-> NoFields]

JDict(f) == [t |-> "dict", b |-> FALSE, s |-> << >>, f |-> f]

\* Python truthiness, as bool(v) and the operands of "or" use it.
Truthy(v) ==
    CASE v.t = "bool" -> v.b
      [] v.t = "str" -> v.s # << >>
      [] v.t = "null" -> FALSE
      [] v.t = "list" -> v.b
      [] v.t = "dict" -> DOMAIN v.f # {}

\* a or b
PyOr(a, b) == IF Truthy(a) THEN a ELSE b

\* dict.get(k): the value, or None.
Get(d, k) == IF k \in DOMAIN d.f THEN d.f[k] ELSE JNull

ExtractKeys == {"urgent", "name", "callback_phone", "address", "issue", "summary"}

\* transcript[:400] and transcript[:220]
IssueChars == 400

SummaryChars == 220

heuristic_extract(transcript) ==
    JDict([urgent |-> JBool(UrgentMatch(transcript)), name |-> JStr(<< >>),
           callback_phone |-> JStr(<< >>), address |-> JStr(<< >>),
           issue |-> JStr(Take(transcript, IssueChars)),
           summary |-> JStr(Take(transcript, SummaryChars))])

(***************************************************************************)
(* The classifier's behaviour on one call of requests.post.  kind is       *)
(*   "transport_error", "timeout"  requests.post raises                    *)
(*   "http_error"                  raise_for_status raises                 *)
(*   "bad_body"                    r.json()["choices"][0]["message"]       *)
(*                                 ["content"].strip() raises              *)
(*   "content"                     the content text, as its segments.      *)
(* The content text is a sequence of segments: prose without braces, a     *)
(* braced text {...} that is not JSON, or the text of one JSON value.      *)
(***************************************************************************)
Prose == [g |-> "prose", v |-> JNull]

Braced == [g |-> "braced", v |-> JNull]

Json(v) == [g |-> "json", v |-> v]

\* json.loads(text): the text must be exactly one JSON value.
StrictOk(segs) == Len(segs) = 1 /\ segs[1].g = "json"

HasBrace(seg) == seg.g = "braced" \/ (seg.g = "json" /\ seg.v.t = "dict")

BraceAt(segs) == {i \in 1..Len(segs) : HasBrace(segs[i])}

Min(S) == CHOOSE x \in S : \A y \in S : x <= y

Max(S) == CHOOSE x \in S : \A y \in S : x >= y

\* re.search(r"\{.*\}", text, re.S): greedy, from the first { to the last }.
EmbeddedMatch(segs) == SubSeq(segs, Min(BraceAt(segs)), Max(BraceAt(segs)))

\* A variant that returns an empty object when the embedded parse fails.
openai_extract_empty_on_failure(transcript, reply) ==
    IF OPENAI_API_KEY = << >> THEN heuristic_extract(transcript)
    ELSE IF reply.kind # "content" THEN heuristic_extract(transcript)
    ELSE IF StrictOk(reply.segs) THEN reply.segs[1].v
    ELSE IF BraceAt(reply.segs) = {} THEN heuristic_extract(transcript)
    ELSE IF StrictOk(EmbeddedMatch(reply.segs)) THEN EmbeddedMatch(reply.segs)[1].v
    ELSE JDict(NoFields)

openai_extract(transcript, reply) ==
    IF OPENAI_API_KEY = << >> THEN heuristic_extract(transcript)
    ELSE IF reply.kind # "content" THEN heuristic_extract(transcript)
    ELSE IF StrictOk(reply.segs) THEN reply.segs[1].v
    ELSE IF BraceAt(reply.segs) = {} THEN heuristic_extract(transcript)
    ELSE IF StrictOk(EmbeddedMatch(reply.segs)) THEN EmbeddedMatch(reply.segs)[1].v
    ELSE heuristic_extract(transcript)


(***************************************************************************)
(* Directive documents (TwiML).  A document is its HTTP status and its     *)
(* verbs in order; a verb is its name, its text (the line spoken, the      *)
(* address of a Gather or Redirect), the <Parameter> children of a Gather  *)
(* and the element text of a Dial, both as written in the markup, and the  *)
(* line spoken inside a Gather.                                            *)
(***************************************************************************)
Say(text) ==
    [verb |-> "Say", text |-> text, params |-> << >>, body |-> << >>, prompt |-> ""]

Gather(action, params, prompt) ==
    [verb |-> "Gather", text |-> action, params |-> params, body |-> << >>,
     prompt |-> prompt]

Parameter(name, value) == [name |-> name, value |-> value]

Redirect(url) ==
    [verb |-> "Redirect", text |-> url, params |-> << >>, body |-> << >>, prompt |-> ""]

Dial(number) ==
    [verb |-> "Dial", text |-> "", params |-> << >>, body |-> number, prompt |-> ""]

Hangup ==
    [verb |-> "Hangup", text |-> "", params |-> << >>, body |-> << >>, prompt |-> ""]

\* twiml(xml): a 200 response carrying the document.
twiml(verbs) == [status |-> 200, verbs |-> verbs]

\* What Flask answers when the handler raises: 500, no document.
Aborted == [status |-> 500, verbs |-> << >>]

\* No response yet: the call has not reached the application.
NoDoc == [status |-> 0, verbs |-> << >>]

VerbsOf(d, v) == {i \in 1..Len(d.verbs) : d.verbs[i].verb = v}

HasVerb(d, v) == VerbsOf(d, v) # {}

\* What a handler does: the response it returns, the payloads it hands to
\* post_lead, and the extraction result it worked from (None: none made).
Outcome(d, posts, extracted) == [doc |-> d, posts |-> posts, extracted |-> extracted]

(***************************************************************************)
(* Requests: the form values a handler reads.                              *)
(***************************************************************************)
Request(speech, issue, callback, sid, from) ==
    [SpeechResult |-> speech, issue |-> issue, callback |-> callback,
     CallSid |-> sid, From |-> from]

(***************************************************************************)
(* /voice                                                                  *)
(***************************************************************************)
voice_entry ==
    Outcome(twiml(<<
        Say("Thanks for calling. This call may be recorded to help route your request."),
        Say("In one sentence, tell me what happened with the water damage."),
        Gather("/voice/issue", << >>, "Go ahead."),
        Say("Sorry, I didn't catch that."),
        Redirect("/voice") >>), << >>, None)

(***************************************************************************)
(* /voice/issue                                                            *)
(***************************************************************************)
\* issue = (request.values.get("SpeechResult") or "").strip()
voice_issue_issue(req) == Strip(OrEmpty(req.SpeechResult))

\* A variant without the test of the speech: it always asks for the phone.
voice_issue_no_check(req) ==
    Outcome(twiml(<<
        Say("Got it."),
        Say("What is the best callback phone number?"),
        Gather("/voice/phone",
               <<Parameter("issue", escape_xml(voice_issue_issue(req)))>>,
               "Say the phone number slowly."),
        Say("Sorry, I didn't catch the phone number."),
        Redirect("/voice") >>), << >>, None)

voice_issue(req) ==
    IF voice_issue_issue(req) = << >> THEN
        Outcome(twiml(<<
            Say("Sorry, I didn't catch what happened."),
            Redirect("/voice") >>), << >>, None)
    ELSE
        Outcome(twiml(<<
            Say("Got it."),
            Say("What is the best callback phone number?"),
            Gather("/voice/phone",
                   <<Parameter("issue", escape_xml(voice_issue_issue(req)))>>,
                   "Say the phone number slowly."),
            Say("Sorry, I didn't catch the phone number."),
            Redirect("/voice") >>), << >>, None)

(***************************************************************************)
(* /voice/phone                                                            *)
(***************************************************************************)
\* issue = (request.values.get("issue") or "").strip()
voice_phone_issue(req) == Strip(OrEmpty(req.issue))

\* phone_spoken = (request.values.get("SpeechResult") or "").strip()
voice_phone_phone_spoken(req) == Strip(OrEmpty(req.SpeechResult))

\* A variant that carries the callback on and leaves the issue behind.
voice_phone_drops_issue(req) ==
    IF voice_phone_phone_spoken(req) = << >> THEN
        Outcome(twiml(<<
            Say("Sorry, I didn't catch the callback number."),
            Redirect("/voice") >>), << >>, None)
    ELSE
        Outcome(twiml(<<
            Say("Thanks."),
            Say("And what is your name?"),
            Gather("/voice/finalize",
                   <<Parameter("callback", escape_xml(voice_phone_phone_spoken(req)))>>,
                   "Go ahead."),
            Say("Sorry, I didn't catch your name."),
            Redirect("/voice") >>), << >>, None)

voice_phone(req) ==
    IF voice_phone_phone_spoken(req) = << >> THEN
        Outcome(twiml(<<
            Say("Sorry, I didn't catch the callback number."),
            Redirect("/voice") >>), << >>, None)
    ELSE
        Outcome(twiml(<<
            Say("Thanks."),
            Say("And what is your name?"),
            Gather("/voice/finalize",
                   <<Parameter("issue", escape_xml(voice_phone_issue(req))),
                     Parameter("callback", escape_xml(voice_phone_phone_spoken(req)))>>,
                   "Go ahead."),
            Say("Sorry, I didn't catch your name."),
            Redirect("/voice") >>), << >>, None)


(***************************************************************************)
(* post_lead: one POST to the lead sink when it is configured, none when   *)
(* it is not.  outcome is how that POST ends: "2xx", "non2xx", "error"     *)
(* (requests.post raises) or "timeout".  The result is what post_lead      *)
(* returns, with the request it sent.                                      *)
(***************************************************************************)
SinkOutcomes == {"2xx", "non2xx", "error", "timeout"}

post_lead(payload, outcome) ==
    IF LEAD_WEBHOOK_URL = << >>
    THEN [payload |-> payload, sent |-> FALSE, returned |-> FALSE]
    ELSE [payload |-> payload, sent |-> TRUE, returned |-> (outcome = "2xx")]

(***************************************************************************)
(* /voice/finalize                                                         *)
(***************************************************************************)
\* issue = (request.values.get("issue") or "").strip()
voice_finalize_issue(req) == Strip(OrEmpty(req.issue))

\* callback = (request.values.get("callback") or "").strip()
voice_finalize_callback(req) == Strip(OrEmpty(req.callback))

\* name = (request.values.get("SpeechResult") or "").strip()
voice_finalize_name(req) == Strip(OrEmpty(req.SpeechResult))

L_CallerName == <<"C", "a", "l", "l", "e", "r", "N", "a", "m", "e", ":", " ">>
L_Callback == <<"\n", "C", "a", "l", "l", "b", "a", "c", "k", ":", " ">>
L_Issue == <<"\n", "I", "s", "s", "u", "e", ":", " ">>
L_From == <<"\n", "F", "r", "o", "m", ":", " ">>
L_CallSid == <<"\n", "C", "a", "l", "l", "S", "i", "d", ":", " ">>

voice_finalize_transcript(req) ==
    L_CallerName \o voice_finalize_name(req)
        \o L_Callback \o voice_finalize_callback(req)
        \o L_Issue \o voice_finalize_issue(req)
        \o L_From \o req.From
        \o L_CallSid \o req.CallSid

\* lead_payload, without its "ts" (the wall clock).
lead_payload(req, extracted) ==
    [niche |-> SITE_NICHE,
     city |-> SITE_CITY,
     name |-> PyOr(Get(extracted, "name"), JStr(voice_finalize_name(req))),
     phone |-> PyOr(Get(extracted, "callback_phone"),
                    PyOr(JStr(voice_finalize_callback(req)), JStr(req.From))),
     email |-> JNull,
     address |-> PyOr(Get(extracted, "address"), JStr(<< >>)),
     message |-> PyOr(Get(extracted, "issue"), JStr(voice_finalize_issue(req))),
     summary |-> PyOr(Get(extracted, "summary"), JStr(<< >>)),
     urgent |-> Truthy(Get(extracted, "urgent")),
     callSid |-> req.CallSid,
     from |-> req.From,
     source |-> "phone-ai"]

\* The two terminal documents.
BridgeDoc ==
    twiml(<<
        Say("Okay. This sounds urgent. I'm connecting you now."),
        Dial(escape_xml(FORWARD_NUMBER)),
        Say("If the line is busy, a team member will call you back shortly.") >>)

PromiseDoc ==
    twiml(<<
        Say("Thank you. A local team will call you back shortly."),
        Hangup >>)

\* A variant that posts the lead a second time when the call is urgent.
voice_finalize_posts_twice(req, reply) ==
    LET extracted == openai_extract(voice_finalize_transcript(req), reply) IN
    IF extracted.t # "dict" THEN Outcome(Aborted, << >>, Some(extracted))
    ELSE IF Truthy(Get(extracted, "urgent")) /\ FORWARD_NUMBER # << >>
    THEN Outcome(BridgeDoc,
                 <<lead_payload(req, extracted), lead_payload(req, extracted)>>,
                 Some(extracted))
    ELSE Outcome(PromiseDoc, <<lead_payload(req, extracted)>>, Some(extracted))

\* extracted.get raises AttributeError when extracted is no dict: the
\* request is aborted before the lead is built.
voice_finalize(req, reply) ==
    LET extracted == openai_extract(voice_finalize_transcript(req), reply) IN
    IF extracted.t # "dict" THEN Outcome(Aborted, << >>, Some(extracted))
    ELSE IF Truthy(Get(extracted, "urgent")) /\ FORWARD_NUMBER # << >>
    THEN Outcome(BridgeDoc, <<lead_payload(req, extracted)>>, Some(extracted))
    ELSE Outcome(PromiseDoc, <<lead_payload(req, extracted)>>, Some(extracted))


(***************************************************************************)
(* State.  Every handler is a function of its request and the              *)
(* configuration; what is kept per call is what the telephony transport    *)
(* holds (the last document it was given) and a record of what happened.   *)
(***************************************************************************)
VARIABLES
    doc,        \* doc[c]: the last response the transport got for call c
    at,         \* at[c]: the route that returned doc[c]; "new" before any
    req,        \* req[c]: the request that route was sent
    collected,  \* collected[c]: the fields the handlers stored in this pass
    faithful,   \* faithful[c]: every request of this pass echoed its parameters
    leads,      \* leads[c]: the post_lead calls made for call c, in order
    extracted,  \* extracted[c]: what openai_extract returned (None: not run)
    cls         \* cls[c]: the classifier's behaviour on that run

config == <<OPENAI_API_KEY, FORWARD_NUMBER, LEAD_WEBHOOK_URL>>

vars == <<OPENAI_API_KEY, FORWARD_NUMBER, LEAD_WEBHOOK_URL,
          doc, at, req, collected, faithful, leads, extracted, cls>>

Calls == {"CA1", "CA2"}

\* The CallSid and From the transport sends with every request of a call.
CallSidOf == ("CA1" :> <<"C", "A", "1">>) @@ ("CA2" :> <<"C", "A", "2">>)

FromOf == ("CA1" :> <<"+", "1", "5">>) @@ ("CA2" :> <<"+", "1", "6">>)

NothingCollected == [issue |-> None, callback |-> None]

(***************************************************************************)
(* The transport.  It executes the document: a Gather that hears the       *)
(* caller posts the speech to the Gather's action with the Parameter       *)
(* values; otherwise the document runs on to its Redirect.  Dial, Hangup   *)
(* and a 500 end the call.                                                 *)
(***************************************************************************)
GatherOf(d) == d.verbs[CHOOSE i \in VerbsOf(d, "Gather") : TRUE]

GatherAction(d) == IF HasVerb(d, "Gather") THEN GatherOf(d).text ELSE ""

ParamsOf(d) == IF HasVerb(d, "Gather") THEN GatherOf(d).params ELSE << >>

\* The document parses: every Parameter value is a well-formed attribute.
WellFormed(d) == \A i \in 1..Len(ParamsOf(d)) : ParseAttr(ParamsOf(d)[i].value).ok

\* The value the document carries under a name, as the transport reads it.
CarriedParam(d, name) ==
    LET at_ == {i \in 1..Len(ParamsOf(d)) : ParamsOf(d)[i].name = name} IN
    IF at_ = {} THEN None
    ELSE Some(ParseAttr(ParamsOf(d)[CHOOSE i \in at_ : TRUE].value).v)

\* The request for call c: the speech heard, and the carried parameters when
\* the transport echoes them (echo = FALSE: the carried state is lost).
TransportRequest(c, speech, echo) ==
    Request(speech,
            IF echo THEN CarriedParam(doc[c], "issue") ELSE None,
            IF echo THEN CarriedParam(doc[c], "callback") ELSE None,
            CallSidOf[c], FromOf[c])

Echoed(c, r) ==
    /\ r.issue = CarriedParam(doc[c], "issue")
    /\ r.callback = CarriedParam(doc[c], "callback")

\* The transport is about to post the caller's answer to this route.
Awaits(c, route) ==
    /\ doc[c].status = 200
    /\ WellFormed(doc[c])
    /\ GatherAction(doc[c]) = route

\* The transport is about to request /voice: a new call, or a Redirect.
AwaitsEntry(c) ==
    IF at[c] = "new" THEN TRUE
    ELSE doc[c].status = 200 /\ WellFormed(doc[c]) /\ HasVerb(doc[c], "Redirect")

\* The post_lead calls of one handler run, as rows of the lead log.
LeadRows(route, posts, outcome) ==
    [i \in 1..Len(posts) |->
        [by |-> route, call |-> post_lead(posts[i], outcome),
         outcome |-> IF LEAD_WEBHOOK_URL = << >> THEN "not_sent" ELSE outcome]]

\* Route `route` answers request r of call c with o.
Respond(c, route, r, o, outcome) ==
    /\ doc' = [doc EXCEPT ![c] = o.doc]
    /\ at' = [at EXCEPT ![c] = route]
    /\ req' = [req EXCEPT ![c] = r]
    /\ leads' = [leads EXCEPT ![c] = @ \o LeadRows(route, o.posts, outcome)]
    /\ extracted' = [extracted EXCEPT ![c] = o.extracted]
    /\ UNCHANGED config

(***************************************************************************)
(* Inputs.                                                                 *)
(***************************************************************************)
\* What the caller may be heard to say at each prompt: nothing (the
\* parameter is missing), blanks, and texts with leading or trailing
\* blanks, XML metacharacters and urgency words.
IssueSpeech == {None, Some(<<" ">>), Some(<<"f", "l", "o", "o", "d">>), Some(<<" ", "a", "<">>)}

PhoneSpeech == {None, Some(<< >>), Some(<<"5">>), Some(<<"5", "&", " ">>)}

NameSpeech == {None, Some(<<" ">>), Some(<<"A", "l">>), Some(<<"B", "u", "r", "s", "t">>)}

\* JSON values the classifier may answer with.
ProperUrgent ==
    JDict([urgent |-> JBool(TRUE), name |-> JStr(<<"A", "l">>),
           callback_phone |-> JStr(<<"5">>), address |-> JStr(<<"x">>),
           issue |-> JStr(<<"f">>), summary |-> JStr(<<"s">>)])

ProperRoutine ==
    JDict([urgent |-> JBool(FALSE), name |-> JStr(<< >>),
           callback_phone |-> JStr(<< >>), address |-> JStr(<< >>),
           issue |-> JStr(<< >>), summary |-> JStr(<< >>)])

Sloppy == JDict([urgent |-> JStr(<<"n", "o">>)])

Segments == {Prose, Braced, Json(ProperUrgent), Json(ProperRoutine), Json(Sloppy),
    Json(JNull)}

Failures == {"transport_error", "timeout", "http_error", "bad_body"}

Replies ==
    {[kind |-> k, segs |-> << >>] : k \in Failures}
        \cup {[kind |-> "content", segs |-> s] :
                s \in UNION {[1..n -> Segments] : n \in 0..MaxSegs}}

NoCall == [kind |-> "not_called", segs |-> << >>]

\* requests.post is reached only with a key configured.
RepliesNow == IF OPENAI_API_KEY = << >> THEN {NoCall} ELSE Replies

OutcomesNow == IF LEAD_WEBHOOK_URL = << >> THEN {"not_sent"} ELSE SinkOutcomes

Entry(c) ==
    /\ AwaitsEntry(c)
    /\ Respond(c, "/voice", Request(None, None, None, CallSidOf[c], FromOf[c]),
               voice_entry, "not_sent")
    /\ collected' = [collected EXCEPT ![c] = NothingCollected]
    /\ faithful' = [faithful EXCEPT ![c] = TRUE]
    /\ UNCHANGED cls

IssueTurn(c, speeches) ==
    /\ Awaits(c, "/voice/issue")
    /\ \E speech \in speeches, echo \in BOOLEAN :
       LET r == TransportRequest(c, speech, echo)
           o == voice_issue(r)
       IN /\ Respond(c, "/voice/issue", r, o, "not_sent")
          /\ collected' = [collected EXCEPT ![c] =
                IF HasVerb(o.doc, "Gather")
                THEN [@ EXCEPT !.issue = Some(voice_issue_issue(r))]
                ELSE NothingCollected]
          /\ faithful' = [faithful EXCEPT ![c] = @ /\ Echoed(c, r)]
    /\ UNCHANGED cls

\* A variant whose handler takes the issue from a variable of the process,
\* the issue some call stored last, and not from the request.
PhoneTurn_issue_of_process(c, speeches) ==
    /\ Awaits(c, "/voice/phone")
    /\ \E speech \in speeches, echo \in BOOLEAN, d \in Calls :
       LET r == [TransportRequest(c, speech, echo) EXCEPT
                    !.issue = IF collected[d].issue = None THEN @ ELSE collected[d].issue]
           o == voice_phone(r)
       IN /\ Respond(c, "/voice/phone", r, o, "not_sent")
          /\ collected' = [collected EXCEPT ![c] =
                IF HasVerb(o.doc, "Gather")
                THEN [@ EXCEPT !.callback = Some(voice_phone_phone_spoken(r))]
                ELSE NothingCollected]
          /\ faithful' = [faithful EXCEPT ![c] = @ /\ Echoed(c, r)]
    /\ UNCHANGED cls

PhoneTurn(c, speeches) ==
    /\ Awaits(c, "/voice/phone")
    /\ \E speech \in speeches, echo \in BOOLEAN :
       LET r == TransportRequest(c, speech, echo)
           o == voice_phone(r)
       IN /\ Respond(c, "/voice/phone", r, o, "not_sent")
          /\ collected' = [collected EXCEPT ![c] =
                IF HasVerb(o.doc, "Gather")
                THEN [@ EXCEPT !.callback = Some(voice_phone_phone_spoken(r))]
                ELSE NothingCollected]
          /\ faithful' = [faithful EXCEPT ![c] = @ /\ Echoed(c, r)]
    /\ UNCHANGED cls

FinalizeTurn(c, speeches) ==
    /\ Awaits(c, "/voice/finalize")
    /\ \E speech \in speeches, echo \in BOOLEAN, reply \in RepliesNow,
          outcome \in OutcomesNow :
       LET r == TransportRequest(c, speech, echo)
           o == voice_finalize(r, reply)
       IN /\ Respond(c, "/voice/finalize", r, o, outcome)
          /\ faithful' = [faithful EXCEPT ![c] = @ /\ Echoed(c, r)]
          /\ cls' = [cls EXCEPT ![c] = Some(reply)]
    /\ UNCHANGED collected

(***************************************************************************)
(* The call flow: one call, every configuration.                           *)
(***************************************************************************)
FlowCalls == {"CA1"}

InitCalls ==
    /\ doc = [c \in Calls |-> NoDoc]
    /\ at = [c \in Calls |-> "new"]
    /\ req = [c \in Calls |-> Request(None, None, None, CallSidOf[c], FromOf[c])]
    /\ collected = [c \in Calls |-> NothingCollected]
    /\ faithful = [c \in Calls |-> TRUE]
    /\ leads = [c \in Calls |-> << >>]
    /\ extracted = [c \in Calls |-> None]
    /\ cls = [c \in Calls |-> None]

Init ==
    /\ OPENAI_API_KEY \in {<< >>, <<"k">>}
    /\ FORWARD_NUMBER \in {<< >>, <<"+", "1", "7">>}
    /\ LEAD_WEBHOOK_URL \in {<< >>, <<"u">>}
    /\ InitCalls

Next ==
    \E c \in FlowCalls :
        \/ Entry(c)
        \/ IssueTurn(c, IssueSpeech)
        \/ PhoneTurn(c, PhoneSpeech)
        \/ FinalizeTurn(c, NameSpeech)

Spec == Init /\ [][Next]_vars


(***************************************************************************)
(* The round trip: one call, nothing configured, and every utterance of up *)
(* to MaxLen characters over an alphabet of a letter, a blank and XML      *)
(* metacharacters at the issue and phone prompts.                          *)
(***************************************************************************)
Alphabet == {"a", " ", "&", "<", "\""}

AllText == UNION {[1..n -> Alphabet] : n \in 0..MaxLen}

AllSpeech == {None} \cup {Some(s) : s \in AllText}

InitRoundTrip ==
    /\ OPENAI_API_KEY = << >>
    /\ FORWARD_NUMBER = << >>
    /\ LEAD_WEBHOOK_URL = << >>
    /\ InitCalls

NextRoundTrip ==
    \E c \in FlowCalls :
        \/ Entry(c)
        \/ IssueTurn(c, AllSpeech)
        \/ PhoneTurn(c, AllSpeech)
        \/ FinalizeTurn(c, {Some(<<"A", "l">>)})

SpecRoundTrip == InitRoundTrip /\ [][NextRoundTrip]_vars

(***************************************************************************)
(* Vocabulary of the properties.                                           *)
(***************************************************************************)
AnswerRoutes == {"/voice/issue", "/voice/phone", "/voice/finalize"}

DidntCatch == {
    "Sorry, I didn't catch that.",
    "Sorry, I didn't catch what happened.",
    "Sorry, I didn't catch the callback number.",
    "Sorry, I didn't catch the phone number.",
    "Sorry, I didn't catch your name." }

\* A "didn't catch that" line, then a restart at Greeting, and nothing else:
\* no gather, so no carried context and no next question; no bridge, no
\* end of call.
IsRestart(d) ==
    /\ d.status = 200
    /\ Len(d.verbs) = 2
    /\ d.verbs[1].verb = "Say" /\ d.verbs[1].text \in DidntCatch
    /\ d.verbs[2] = Redirect("/voice")

\* The turn advanced: its document gathers the next answer.
Advanced(c) == doc[c].status = 200 /\ HasVerb(doc[c], "Gather")

\* The request the transport sends next when it echoes the parameters.
NextRequest(c) == TransportRequest(c, None, TRUE)

\* The speech the last request carried, None read as the empty text.
Heard(c) == OrEmpty(req[c].SpeechResult)


(***************************************************************************)
(* C1.  On each of the three answer-collecting turns (issue, callback      *)
(* phone, name), when the recognized speech is empty or missing the        *)
(* response is a "didn't catch that" prompt and a restart at Greeting,     *)
(* with no gather and no carried context, and the flow does not advance.   *)
(* The name turn (voice_finalize) does not test its speech: it finalizes   *)
(* with an empty name.                                                     *)
(***************************************************************************)
C1_EmptySpeechRestarts ==
    \A c \in Calls :
        (at[c] \in AnswerRoutes /\ Heard(c) = << >>) =>
            (IsRestart(doc[c]) /\ leads[c] = << >>)

(***************************************************************************)
(* C2.  Every request handled by the terminal turn is answered by one      *)
(* directive document holding exactly one of Dial and Hangup, whatever     *)
(* the extraction result.  An extraction result that is no dict aborts     *)
(* the request instead.                                                    *)
(***************************************************************************)
C2_ExactlyOneTerminalVerb ==
    \A c \in Calls :
        at[c] = "/voice/finalize" =>
            /\ doc[c].status = 200
            /\ Cardinality(VerbsOf(doc[c], "Dial")) + Cardinality(VerbsOf(doc[c], "Hangup")) = 1

(***************************************************************************)
(* C3.  The terminal turn bridges (Dial to the forwarding number) exactly  *)
(* when the extracted urgent flag is true and a forwarding number is       *)
(* configured, and otherwise speaks the callback promise and ends the      *)
(* call.  An extraction result whose urgent is a non-empty text bridges,   *)
(* and one that is no dict yields no directive at all.                     *)
(***************************************************************************)
UrgentFlag(e) == e.t = "dict" /\ Get(e, "urgent") = JBool(TRUE)

C3_BridgeIffUrgentAndConfigured ==
    \A c \in Calls :
        at[c] = "/voice/finalize" =>
            IF UrgentFlag(extracted[c][1]) /\ FORWARD_NUMBER # << >>
            THEN doc[c] = BridgeDoc
            ELSE doc[c] = PromiseDoc

(***************************************************************************)
(* C4.  A LeadRecord is built and sent at most once per call, without      *)
(* retry, and only by the terminal turn: no lead exists while the call is  *)
(* at the greeting, issue or phone turn, restarts included.                *)
(***************************************************************************)
C4_LeadAtMostOnceByFinalize ==
    \A c \in Calls :
        /\ Len(leads[c]) <= 1
        /\ \A i \in 1..Len(leads[c]) : leads[c][i].by = "/voice/finalize"
        /\ at[c] # "/voice/finalize" => leads[c] = << >>

\* A delivery that failed was made once and not repeated.
C4_FailedDeliveryNotRetried ==
    \E c \in Calls :
        /\ at[c] = "/voice/finalize"
        /\ Len(leads[c]) = 1
        /\ leads[c][1].call.sent
        /\ leads[c][1].outcome = "timeout"

(***************************************************************************)
(* C5.  When the carried-forward state is absent on the request of the     *)
(* phone turn or of the finalize turn, the handler does not fail and the   *)
(* caller is restarted at Greeting; the flow neither advances nor          *)
(* finalizes.  Neither handler looks at whether the state arrived.         *)
(***************************************************************************)
StateLost(c) ==
    \/ at[c] = "/voice/phone" /\ req[c].issue = None
    \/ at[c] = "/voice/finalize" /\ (req[c].issue = None \/ req[c].callback = None)

C5_LostStateRestarts ==
    \A c \in Calls : StateLost(c) => (IsRestart(doc[c]) /\ leads[c] = << >>)

(***************************************************************************)
(* C6.  Once the issue turn has stored the issue and the phone turn the    *)
(* callback, later turns do not change them: with a transport that echoes  *)
(* the carried parameters, the issue the phone turn reads and re-emits and *)
(* the issue and callback the finalize turn reads are the values stored    *)
(* when they were collected, XML metacharacters included.                  *)
(***************************************************************************)
C6_FieldsSurviveLaterTurns ==
    \A c \in Calls :
        /\ (at[c] = "/voice/phone" /\ faithful[c] /\ Advanced(c)) =>
              /\ Some(voice_phone_issue(req[c])) = collected[c].issue
              /\ CarriedParam(doc[c], "issue") = collected[c].issue
        /\ (at[c] = "/voice/finalize" /\ faithful[c]) =>
              /\ Some(voice_finalize_issue(req[c])) = collected[c].issue
              /\ Some(voice_finalize_callback(req[c])) = collected[c].callback

\* The finalize turn has read an issue with a < and a callback with an &.
C6_MetacharactersReachFinalize ==
    \E c \in Calls :
        /\ at[c] = "/voice/finalize" /\ faithful[c]
        /\ collected[c].issue = Some(<<"a", "<">>)
        /\ collected[c].callback = Some(<<"5", "&">>)

(***************************************************************************)
(* C7, as stated.  For every printable text s, storing s as a field (the   *)
(* issue at the issue turn, the callback at the phone turn), encoding it   *)
(* into the directive with escape_xml and decoding it from the next        *)
(* request recovers a field equal to s.                                    *)
(***************************************************************************)
C7_RoundTripRecoversSpeech ==
    \A c \in Calls :
        /\ (at[c] = "/voice/issue" /\ Advanced(c)) =>
              voice_phone_issue(NextRequest(c)) = Heard(c)
        /\ (at[c] = "/voice/phone" /\ Advanced(c)) =>
              voice_finalize_callback(NextRequest(c)) = Heard(c)

(***************************************************************************)
(* C7, amended.  For every printable text s that is not blank, the field   *)
(* recovered from the next request equals s without its leading and        *)
(* trailing whitespace (so equals s when s has none).                      *)
(***************************************************************************)
C7_RoundTripRecoversStrippedSpeech ==
    \A c \in Calls :
        /\ (at[c] = "/voice/issue" /\ Advanced(c)) =>
              voice_phone_issue(NextRequest(c)) = Strip(Heard(c))
        /\ (at[c] = "/voice/phone" /\ Advanced(c)) =>
              voice_finalize_callback(NextRequest(c)) = Strip(Heard(c))

\* The phone turn has stored a callback that began with a blank and holds a
\* quote, after an issue holding an & was carried to it.
C7_BlankAndQuoteStored ==
    \E c \in Calls :
        /\ at[c] = "/voice/phone" /\ Advanced(c) /\ faithful[c]
        /\ Heard(c) = <<" ", "\"">>
        /\ collected[c].issue = Some(<<"&", "a">>)

(***************************************************************************)
(* C8.  openai_extract returns, for every transcript and every classifier  *)
(* behaviour, a result that is never null and has all six keys, urgent a   *)
(* boolean and the others texts.  It returns whatever JSON the classifier  *)
(* wrote: null, or an object without the keys.                             *)
(***************************************************************************)
WellShaped(e) ==
    /\ e.t = "dict"
    /\ DOMAIN e.f = ExtractKeys
    /\ e.f["urgent"].t = "bool"
    /\ \A k \in ExtractKeys \ {"urgent"} : e.f[k].t = "str"

C8_ExtractResultWellShaped ==
    \A c \in Calls : extracted[c] # None => WellShaped(extracted[c][1])

(***************************************************************************)
(* C9.  With the classifier configured, when its call fails (transport     *)
(* error, non-success status, timeout, unusable body) or its content       *)
(* fails both the strict parse and the embedded {...} parse, the           *)
(* extraction result is the heuristic result of the same transcript, and   *)
(* the terminal turn still builds the lead record from it and hands it to  *)
(* post_lead, which sends it when a sink is configured.                    *)
(***************************************************************************)
BothParsesFail(segs) ==
    /\ ~StrictOk(segs)
    /\ BraceAt(segs) = {} \/ ~StrictOk(EmbeddedMatch(segs))

ClassifierFailed(c) ==
    /\ OPENAI_API_KEY # << >>
    /\ cls[c] # None
    /\ \/ cls[c][1].kind \in Failures
       \/ cls[c][1].kind = "content" /\ BothParsesFail(cls[c][1].segs)

C9_FailureFallsBackToHeuristic ==
    \A c \in Calls :
        ClassifierFailed(c) =>
            LET h == heuristic_extract(voice_finalize_transcript(req[c])) IN
            /\ extracted[c] = Some(h)
            /\ doc[c].status = 200
            /\ Len(leads[c]) = 1
            /\ leads[c][1].call.payload = lead_payload(req[c], h)
            /\ leads[c][1].call.sent = (LEAD_WEBHOOK_URL # << >>)

\* The classifier timed out on an urgent call and the lead was still sent.
C9_TimeoutLeadSent ==
    \E c \in Calls :
        /\ ClassifierFailed(c)
        /\ cls[c][1].kind = "timeout"
        /\ leads[c] # << >>
        /\ leads[c][1].call.sent
        /\ leads[c][1].call.payload.urgent

(***************************************************************************)
(* C10.  No request is aborted: on every turn, with any speech, any        *)
(* carried state, any classifier reply and any lead-sink outcome, the      *)
(* handler returns a directive document.  The terminal turn raises on an   *)
(* extraction result that is no dict.                                      *)
(***************************************************************************)
C10_NoRequestAborted == \A c \in Calls : at[c] # "new" => doc[c].status = 200

(***************************************************************************)
(* C11.  Every run of the terminal turn makes exactly one delivery attempt *)
(* of the LeadRecord when a lead sink is configured and none when it is    *)
(* not, whichever directive is chosen, and the directive does not depend   *)
(* on how the delivery ends.  A run that aborts on an extraction result    *)
(* that is no dict never reaches post_lead.                                *)
(***************************************************************************)
Attempts(c) == {i \in 1..Len(leads[c]) : leads[c][i].call.sent}

C11_OneDeliveryAttemptPerFinalize ==
    \A c \in Calls :
        at[c] = "/voice/finalize" =>
            /\ Cardinality(Attempts(c)) = (IF LEAD_WEBHOOK_URL = << >> THEN 0 ELSE 1)
            /\ \A i \in 1..Len(leads[c]) : leads[c][i].by = "/voice/finalize"
            /\ doc[c] = voice_finalize(req[c], cls[c][1]).doc

(***************************************************************************)
(* Urgency: one call, no classifier, and utterances that hold a trigger    *)
(* phrase as a word, inside a longer word, in capitals, next to a digit or *)
(* an underscore, or not at all.                                           *)
(***************************************************************************)
UrgencyIssueSpeech == {
    None,
    Some(<<"f", "l", "o", "o", "d">>),
    Some(<<"f", "l", "o", "o", "d", "e", "d">>),
    Some(<<"F", "l", "o", "o", "d", "i", "n", "g">>),
    Some(<<"x", "f", "l", "o", "o", "d">>),
    Some(<<"a", " ", "b", "u", "r", "s", "t", ".">>),
    Some(<<"o", "v", "e", "r", "f", "l", "o", "w", "s">>),
    Some(<<"s", "t", "a", "n", "d", "i", "n", "g", " ", "w", "a", "t", "e", "r">>),
    Some(<<"s", "t", "a", "n", "d", "i", "n", "g", " ", " ", "w", "a", "t", "e", "r">>),
    Some(<<"s", "t", "i", "l", "l", " ", "l", "e", "a", "k", "i", "n", "g", "_">>),
    Some(<<"C", "E", "I", "L", "I", "N", "G", " ", "L", "E", "A", "K", "!">>),
    Some(<<"g", "u", "s", "h", "i", "n", "g", "9">>),
    Some(<<"d", "r", "y">>) }

UrgencyNameSpeech == {Some(<<"A", "l">>), Some(<<"B", "u", "r", "s", "t">>), Some(<<"B", "u", "r", "s", "t", "y">>)}

InitUrgency ==
    /\ OPENAI_API_KEY = << >>
    /\ FORWARD_NUMBER \in {<< >>, <<"+", "1", "7">>}
    /\ LEAD_WEBHOOK_URL = << >>
    /\ InitCalls

NextUrgency ==
    \E c \in FlowCalls :
        \/ Entry(c)
        \/ IssueTurn(c, UrgencyIssueSpeech)
        \/ PhoneTurn(c, {None, Some(<<"5">>)})
        \/ FinalizeTurn(c, UrgencyNameSpeech)

SpecUrgency == InitUrgency /\ [][NextUrgency]_vars

(***************************************************************************)
(* C12.  With no classifier configured the extraction result is a function *)
(* of the transcript alone, and its urgent flag is true exactly when the   *)
(* transcript holds one of the nine trigger phrases, in any letter case,   *)
(* as whole words: the occurrence is neither preceded nor followed by a    *)
(* letter, a digit or an underscore.                                       *)
(***************************************************************************)
LowerText(t) == [i \in 1..Len(t) |-> Lower(t[i])]

\* The phrase p occurs in t from position i on, whatever the letter case.
OccursAt(t, p, i) ==
    /\ i + Len(p) - 1 <= Len(t)
    /\ SubSeq(LowerText(t), i, i + Len(p) - 1) = p

ContainsPhrase(t) ==
    \E p \in UrgentPhrases, i \in 1..Len(t) : OccursAt(t, p, i)

ContainsPhraseAsWords(t) ==
    \E p \in UrgentPhrases, i \in 1..Len(t) :
        /\ OccursAt(t, p, i)
        /\ (i = 1 \/ t[i - 1] \notin WordChars)
        /\ (i + Len(p) > Len(t) \/ t[i + Len(p)] \notin WordChars)

\* The extraction ran without a classifier on this call's transcript.
HeuristicRan(c) ==
    /\ at[c] = "/voice/finalize"
    /\ OPENAI_API_KEY = << >>
    /\ extracted[c] # None

C12_UrgentIffPhraseAsWords ==
    \A c \in Calls :
        HeuristicRan(c) =>
            LET t == voice_finalize_transcript(req[c])
                e == extracted[c][1]
            IN /\ e.t = "dict" /\ DOMAIN e.f = ExtractKeys
               /\ e.f.urgent = JBool(ContainsPhraseAsWords(t))
               /\ e.f.issue = JStr(Take(t, IssueChars))
               /\ e.f.summary = JStr(Take(t, SummaryChars))
               /\ \A k \in {"name", "callback_phone", "address"} : e.f[k] = JStr(<< >>)

\* The claim as it is worded: any occurrence of a phrase counts.
C12_UrgentIffPhraseAnywhere ==
    \A c \in Calls :
        HeuristicRan(c) =>
            extracted[c][1].f.urgent = JBool(ContainsPhrase(voice_finalize_transcript(req[c])))

\* A phrase inside a longer word ("flooded") is heard and is not urgent.
C12_PhraseInsideWordNotUrgent ==
    \E c \in Calls :
        /\ HeuristicRan(c)
        /\ ContainsPhrase(voice_finalize_transcript(req[c]))
        /\ extracted[c][1].f.urgent = JBool(FALSE)
        /\ doc[c] = PromiseDoc

(***************************************************************************)
(* C13.  In the LeadRecord the terminal turn builds, name is the extracted *)
(* name when non-empty and else the spoken name; phone is the extracted    *)
(* callback phone, else the collected callback, else the originating       *)
(* number; message is the extracted issue, else the collected issue;       *)
(* urgent equals the extracted urgent flag; email is always null.          *)
(***************************************************************************)
\* The lead the terminal turn built for call c, and the extraction it used.
LeadBuilt(c) == at[c] = "/voice/finalize" /\ leads[c] # << >>

LeadOf(c) == leads[c][1].call.payload

NonEmptyText(v) == v.t = "str" /\ v.s # << >>

\* The first of the texts that is not empty; the last one when all are.
Prefer(v, texts) ==
    IF NonEmptyText(v) THEN v
    ELSE LET full == {i \in 1..Len(texts) : texts[i] # << >>} IN
         IF full = {} THEN JStr(texts[Len(texts)])
         ELSE JStr(texts[CHOOSE i \in full : \A j \in full : i <= j])

C13_LeadFieldPrecedence ==
    \A c \in Calls :
        LeadBuilt(c) =>
            LET e == extracted[c][1]
                r == req[c]
                lead == LeadOf(c)
            IN /\ lead.name = Prefer(Get(e, "name"), <<voice_finalize_name(r)>>)
               /\ lead.phone = Prefer(Get(e, "callback_phone"),
                                      <<voice_finalize_callback(r), r.From>>)
               /\ lead.message = Prefer(Get(e, "issue"), <<voice_finalize_issue(r)>>)
               /\ lead.urgent = (Get(e, "urgent") = JBool(TRUE))
               /\ lead.email = JNull

(***************************************************************************)
(* C14.  Every gather directive emitted by a turn that has collected a     *)
(* field carries the fields collected so far as Parameter children of the  *)
(* Gather, escaped, under the names issue and callback; its action address *)
(* is the bare route of the next turn and holds no state.                  *)
(***************************************************************************)
ParamNames(d) == [i \in 1..Len(ParamsOf(d)) |-> ParamsOf(d)[i].name]

\* A turn that collected a field answered with a gather.
CollectedAndGathers(c) == Advanced(c) /\ at[c] \in {"/voice/issue", "/voice/phone"}

C14_StateCarriedAsParameters ==
    \A c \in Calls :
        CollectedAndGathers(c) =>
            /\ WellFormed(doc[c])
            /\ at[c] = "/voice/issue" =>
                /\ GatherAction(doc[c]) = "/voice/phone"
                /\ ParamNames(doc[c]) = <<"issue">>
                /\ CarriedParam(doc[c], "issue") = collected[c].issue
                /\ collected[c].issue # Some(<< >>)
            /\ at[c] = "/voice/phone" =>
                /\ GatherAction(doc[c]) = "/voice/finalize"
                /\ ParamNames(doc[c]) = <<"issue", "callback">>
                /\ CarriedParam(doc[c], "issue") = Some(voice_phone_issue(req[c]))
                /\ faithful[c] => CarriedParam(doc[c], "issue") = collected[c].issue
                /\ CarriedParam(doc[c], "callback") = collected[c].callback
                /\ collected[c].callback # Some(<< >>)

\* The claim as it is worded: the action address holds the state, so it is
\* more than the route of the next turn.
C14_StateInActionAddress ==
    \A c \in Calls :
        CollectedAndGathers(c) => GatherAction(doc[c]) \notin AnswerRoutes

\* The phone turn gathers to /voice/finalize with both fields as Parameters.
C14_BothFieldsCarried ==
    \E c \in Calls :
        /\ at[c] = "/voice/phone" /\ Advanced(c) /\ faithful[c]
        /\ GatherAction(doc[c]) = "/voice/finalize"
        /\ CarriedParam(doc[c], "issue") = Some(<<"a", "&">>)
        /\ CarriedParam(doc[c], "callback") = Some(<<"<", "a">>)

(***************************************************************************)
(* C15.  escape_xml is total; its output holds no raw <, >, " or ', and    *)
(* every & in it begins one of the five entities; None gives the empty     *)
(* text.  Every text of the caller that a document holds is a Parameter    *)
(* value, and every Parameter value is an output of escape_xml.            *)
(***************************************************************************)
\* Every text of up to MaxLen characters over a letter, the semicolon and
\* the five characters escape_xml replaces.
EscapeAlphabet == {"a", ";", "&", "<", ">", "\"", "'"}

EscapeTexts == UNION {[1..n -> EscapeAlphabet] : n \in 0..MaxLen}

\* No raw metacharacter, and every ampersand begins an entity.
Escaped(e) ==
    \A i \in 1..Len(e) :
        /\ e[i] \notin {"<", ">", "\"", "'"}
        /\ e[i] = "&" => \E x \in Entities : StartsWith(SubSeq(e, i, Len(e)), x.e)

EscapeXmlSafeOnTexts ==
    /\ escape_xml(None) = << >>
    /\ \A s \in EscapeTexts :
        /\ Escaped(escape_xml(s))
        /\ Len(escape_xml(s)) >= Len(s)

\* The lines the handlers speak: none holds a text of the caller.
FixedLines == DidntCatch \cup {
    "Thanks for calling. This call may be recorded to help route your request.",
    "In one sentence, tell me what happened with the water damage.",
    "Go ahead.", "Got it.", "What is the best callback phone number?",
    "Say the phone number slowly.", "Thanks.", "And what is your name?",
    "Okay. This sounds urgent. I'm connecting you now.",
    "If the line is busy, a team member will call you back shortly.",
    "Thank you. A local team will call you back shortly.", "" }

C15_EveryCallerTextEscaped ==
    /\ EscapeXmlSafeOnTexts
    /\ \A c \in Calls :
        /\ \A i \in 1..Len(doc[c].verbs) :
            LET v == doc[c].verbs[i] IN
            /\ v.text \in FixedLines \cup AnswerRoutes \cup {"/voice"}
            /\ v.prompt \in FixedLines
            /\ v.body \in {<< >>, escape_xml(FORWARD_NUMBER)}
        /\ \A i \in 1..Len(ParamsOf(doc[c])) :
            LET e == ParamsOf(doc[c])[i].value IN
            /\ Escaped(e)
            /\ ParseAttr(e).ok
            /\ e = escape_xml(ParseAttr(e).v)

\* An utterance of metacharacters is carried as entities.
C15_MetacharactersCarriedAsEntities ==
    \E c \in Calls :
        /\ at[c] = "/voice/issue" /\ Advanced(c)
        /\ Heard(c) = <<"\"", "&">>
        /\ ParamsOf(doc[c])[1].value = Quot \o Amp

(***************************************************************************)
(* Two calls at once: their requests interleave in any order, each request *)
(* served by whichever worker takes it.  The handlers keep nothing between *)
(* requests, so a worker has no state of its own.  Each caller has their   *)
(* own words, number and call id.                                          *)
(***************************************************************************)
IssueSpeechOf ==
    ("CA1" :> {None, Some(<<"f", "l", "o", "o", "d">>)})
        @@ ("CA2" :> {None, Some(<<"d", "r", "i", "p", " ">>)})

PhoneSpeechOf ==
    ("CA1" :> {None, Some(<<"5", "5">>)}) @@ ("CA2" :> {None, Some(<<"6", "6">>)})

NameSpeechOf ==
    ("CA1" :> {Some(<<"A", "l">>)}) @@ ("CA2" :> {None, Some(<<"B", "o">>)})

InitTwoCalls ==
    /\ OPENAI_API_KEY = << >>
    /\ FORWARD_NUMBER \in {<< >>, <<"+", "1", "7">>}
    /\ LEAD_WEBHOOK_URL = <<"u">>
    /\ InitCalls

NextTwoCalls ==
    \E c \in Calls :
        \/ Entry(c)
        \/ IssueTurn(c, IssueSpeechOf[c])
        \/ PhoneTurn(c, PhoneSpeechOf[c])
        \/ FinalizeTurn(c, NameSpeechOf[c])

SpecTwoCalls == InitTwoCalls /\ [][NextTwoCalls]_vars

(***************************************************************************)
(* C16.  With calls interleaved at request granularity, the document and   *)
(* the lead of a call are what the handler computes from that call's own   *)
(* request and the configuration, and no text of one call is found in a    *)
(* document or a lead of another.                                          *)
(***************************************************************************)
\* The texts that belong to call c alone.
OwnTexts(c) ==
    {Strip(o[1]) : o \in (IssueSpeechOf[c] \cup PhoneSpeechOf[c] \cup NameSpeechOf[c]) \ {None}}
        \cup {CallSidOf[c], FromOf[c]}

\* The texts of call c's document and of its leads.
TextsIn(c) ==
    {ParseAttr(ParamsOf(doc[c])[i].value).v : i \in 1..Len(ParamsOf(doc[c]))}
        \cup UNION {
            LET lead == leads[c][i].call.payload IN
            {lead.name.s, lead.phone.s, lead.address.s, lead.message.s,
             lead.summary.s, lead.callSid, lead.from} : i \in 1..Len(leads[c])}

\* p is found somewhere in t.
Occurs(p, t) ==
    \E i \in 1..Len(t) : i + Len(p) - 1 <= Len(t) /\ SubSeq(t, i, i + Len(p) - 1) = p

\* What the route's handler returns for a request, by itself.
Handled(route, r) ==
    CASE route = "/voice" -> voice_entry
      [] route = "/voice/issue" -> voice_issue(r)
      [] route = "/voice/phone" -> voice_phone(r)
      [] route = "/voice/finalize" -> voice_finalize(r, NoCall)

C16_CallsIsolated ==
    \A c \in Calls :
        /\ at[c] # "new" =>
            /\ doc[c] = Handled(at[c], req[c]).doc
            /\ req[c].CallSid = CallSidOf[c] /\ req[c].From = FromOf[c]
            /\ \A i \in 1..Len(leads[c]) :
                leads[c][i].call.payload = lead_payload(req[c], extracted[c][1])
        /\ \A d \in Calls \ {c} :
            \A t \in TextsIn(c), p \in OwnTexts(d) : ~Occurs(p, t)

\* Both calls are under way: one has its lead, the other is between turns.
C16_CallsInterleaved ==
    /\ at["CA1"] = "/voice/finalize" /\ leads["CA1"] # << >>
    /\ doc["CA1"] = BridgeDoc
    /\ at["CA2"] = "/voice/phone" /\ Advanced("CA2")
    /\ CarriedParam(doc["CA2"], "issue") = Some(<<"d", "r", "i", "p">>)

(***************************************************************************)
(* C17.  When the caller answers every prompt and the transport follows    *)
(* the documents, each turn is answered with the next question and a       *)
(* gather to the next turn's address that carries the fields so far, and   *)
(* the finalize turn is answered with the terminal document: a bridge or   *)
(* an end of call, with no gather, no restart and no carried state, after  *)
(* which the transport sends no request.                                   *)
(***************************************************************************)
\* The caller answered the prompt of this turn, and no state was lost.
Answered(c) == at[c] \in AnswerRoutes /\ faithful[c] /\ Strip(Heard(c)) # << >>

\* The document asks `question` and gathers the answer to `route`.
AsksNext(d, question, route) ==
    /\ d.status = 200
    /\ \E i \in 1..Len(d.verbs) : d.verbs[i] = Say(question)
    /\ Cardinality(VerbsOf(d, "Gather")) = 1
    /\ GatherAction(d) = route
    /\ WellFormed(d)

\* The transport has nothing left to request for call c.
CallOver(c) == ~AwaitsEntry(c) /\ \A route \in AnswerRoutes : ~Awaits(c, route)

C17_AnsweredCallRunsToTerminal ==
    \A c \in Calls :
        /\ at[c] = "/voice" =>
            AsksNext(doc[c], "In one sentence, tell me what happened with the water damage.",
                     "/voice/issue")
        /\ Answered(c) /\ at[c] = "/voice/issue" =>
            /\ AsksNext(doc[c], "What is the best callback phone number?", "/voice/phone")
            /\ CarriedParam(doc[c], "issue") = Some(Strip(Heard(c)))
        /\ Answered(c) /\ at[c] = "/voice/phone" =>
            /\ AsksNext(doc[c], "And what is your name?", "/voice/finalize")
            /\ CarriedParam(doc[c], "issue") = collected[c].issue
            /\ CarriedParam(doc[c], "callback") = Some(Strip(Heard(c)))
        /\ Answered(c) /\ at[c] = "/voice/finalize" =>
            /\ doc[c].status = 200
            /\ HasVerb(doc[c], "Dial") \/ HasVerb(doc[c], "Hangup")
            /\ ~HasVerb(doc[c], "Gather") /\ ~HasVerb(doc[c], "Redirect")
            /\ CallOver(c)

(***************************************************************************)
(* C18.  No retry counter: every missing input is answered with one        *)
(* re-prompt and a restart at Greeting, after which the Greeting is the    *)
(* same as the first time, whatever the number of restarts; a caller who   *)
(* never speaks never gets past the issue turn, and the terminal directive *)
(* is reached only by a call whose three prompts were answered in a row.   *)
(***************************************************************************)
\* The speech of this turn was missing or blank.
MissingInput(c) == at[c] \in AnswerRoutes /\ Strip(Heard(c)) = << >>

\* The handlers answered with the bridge or the end of the call.
TerminalDirective(c) ==
    /\ at[c] = "/voice/finalize"
    /\ doc[c].status = 200
    /\ HasVerb(doc[c], "Dial") \/ HasVerb(doc[c], "Hangup")

\* One re-prompt and a restart for a missing input, and a Greeting that
\* keeps no count of the restarts before it.
RestartsUncounted(c) ==
    /\ (MissingInput(c) /\ at[c] # "/voice/finalize") =>
            (IsRestart(doc[c]) /\ AwaitsEntry(c) /\ collected[c] = NothingCollected)
    /\ at[c] = "/voice" =>
        /\ doc[c] = voice_entry.doc
        /\ req[c] = Request(None, None, None, CallSidOf[c], FromOf[c])
        /\ collected[c] = NothingCollected /\ faithful[c]
        /\ extracted[c] = None
        /\ Awaits(c, "/voice/issue") /\ AwaitsEntry(c)

\* The finalize turn is reached only past two answered prompts.
SilentNeverFinalizes(c) ==
    at[c] = "/voice/finalize" =>
        (collected[c].issue \notin {None, Some(<< >>)}
            /\ collected[c].callback \notin {None, Some(<< >>)})

C18_NoRetryCounter ==
    \A c \in Calls :
        /\ RestartsUncounted(c)
        /\ SilentNeverFinalizes(c)
        /\ MissingInput(c) => IsRestart(doc[c])
        /\ TerminalDirective(c) => ~MissingInput(c)

(***************************************************************************)
(* C19.  In a call whose every request follows the previous document and   *)
(* echoes its carried parameters, whenever the terminal turn builds a      *)
(* LeadRecord the carried issue and callback are both non-empty: they are  *)
(* the values the issue and phone turns validated.                         *)
(***************************************************************************)
C19_CarriedFieldsNonEmptyAtLead ==
    \A c \in Calls :
        (faithful[c] /\ LeadBuilt(c)) =>
            /\ voice_finalize_issue(req[c]) # << >>
            /\ voice_finalize_callback(req[c]) # << >>
            /\ Some(voice_finalize_issue(req[c])) = collected[c].issue
            /\ Some(voice_finalize_callback(req[c])) = collected[c].callback

\* A lead built from an issue and a callback carried through every turn.
C19_LeadFromCarriedFields ==
    \E c \in Calls :
        /\ faithful[c] /\ LeadBuilt(c)
        /\ voice_finalize_issue(req[c]) = <<"a", "<">>
        /\ voice_finalize_callback(req[c]) = <<"5", "&">>
        /\ LeadOf(c).message = JStr(<<"a", "<">>)

=============================================================================
